---- MODULE Spec2Model ----
(***************************************************************************)
(* PySpaceMouse, pyspacemouse_keyboard.py: the InterpolatedKeyController   *)
(* (analog axis -> key pulses / holds), the button rising-edge dispatch    *)
(* and the poll loop of main with its shutdown handler.                    *)
(*                                                                         *)
(* Numbers.  The source computes in binary floating point.  The model      *)
(* computes with exact rationals on a dyadic grid: an axis value is an     *)
(* integer number of units of 1/Scale (Scale a power of two), a time is an *)
(* integer number of ticks of 1/TicksPerSecond seconds (a power of two),   *)
(* the smoothing factor is ema_num/ema_den with ema_den a power of two.    *)
(* On these inputs every float operation of update() up to the comparison  *)
(* `now - last_pulse_time >= interval` is exact, or is a quotient whose    *)
(* distance to the value it is compared with is far above the rounding     *)
(* error, so the float program and the rational model take the same        *)
(* branches.  An Update step is offered only when the smoothed value is    *)
(* again on the grid (EMAExact): the precision of the filter is the        *)
(* model's bounded counter.                                                *)
(***************************************************************************)
EXTENDS Integers, Sequences, FiniteSets, TLC

VARIABLES
    cfg,        \* the controller's constructor arguments (self.press_ms ...)
    states,     \* self.states: bound name -> PulseState
    filtered,   \* self.filtered: bound name -> smoothed value, in units
    now,        \* the time the caller passed with its latest call, in ticks
    kbDown,     \* the actuator: the set of keys that are down
    last,       \* the latest call made on the controller and what it issued
    hist,       \* per axis, a history of the calls issued (see Track)
    prev_buttons,   \* main: the button vector of the latest poll that had one
    polls,      \* the latest button polls: vector, taps fired, calls issued
    pc,         \* main: where the poll loop stands
    state,      \* main: the sample sm_read returned in this tick
    last_mode,  \* main: the movement mode applied last
    pressed_keys,   \* spacemouse_keyboard.py, main: the keys tracked as down
    keys_should_be_pressed, \* the same: the keys computed for the report
    remaining   \* the same: the keys the running exit loop has yet to release

bridge == <<pressed_keys, keys_should_be_pressed, remaining>>

host == <<prev_buttons, polls, pc, state, last_mode, bridge>>

vars == <<cfg, states, filtered, now, kbDown, last, hist, prev_buttons, polls,
          pc, state, last_mode, bridge>>

----------------------------------------------------------------------------
(* Bounds of the model *)

FilterBits == 3     \* axis values have FilterBits binary digits
MaxTime    == 12    \* the clock stops at MaxTime ticks
ApiMaxTime == 4     \* the same, in the specification with bind
MaxDt      == 3     \* the longest step of the clock between two calls
HostMaxTime == 3    \* the same as MaxTime, in the specification of the poll loop
MaxButtons == 2     \* the longest button vector whose entries are all free

Scale == 2 ^ FilterBits
TicksPerSecond == 2 ^ 3

Names == {"move_left", "move_right"}

\* the axes of the yaw pair, bound in hold mode on the same controller
YawNames == {"rotate_left", "rotate_right"}

\* main, _default_axis_mapping
axis_mapping ==
    [n \in Names \cup YawNames |->
        CASE n = "move_left" -> "a"
          [] n = "move_right" -> "d"
          [] n = "rotate_left" -> "delete"
          [] n = "rotate_right" -> "end"]

\* The raw samples a caller passes: at rest, half and full deflection.
RawValues == {0, Scale \div 2, Scale}

\* Constructor arguments.  Times in ticks, frequencies in Hz, values in units.
\* deadzone 1/4 and hold_threshold 3/4; ema_alpha = ema_num / ema_den is 1/2
\* or 1; max_hz makes the shortest pulse interval 1/2 s (twice press_ms) or
\* 1/5 s (less than press_ms).
Configs ==
    { [press_ms |-> 2, min_hz |-> 1, max_hz |-> mx,
       deadzone |-> Scale \div 4, hold_threshold |-> (3 * Scale) \div 4,
       ema_num |-> an, ema_den |-> 2] : mx \in {2, 5}, an \in {1, 2} }

----------------------------------------------------------------------------
(* Rationals <<n, d>> with d > 0 *)

RLe(p, q) == p[1] * q[2] <= q[1] * p[2]
RMax(p, q) == IF RLe(p, q) THEN q ELSE p
RMin(p, q) == IF RLe(p, q) THEN p ELSE q
RDiv(p, q) == <<p[1] * q[2], p[2] * q[1]>>          \* q > 0
Micro == <<1, 10 ^ 6>>                              \* the literal 1e-6

clamp(v, lo, hi) == RMax(lo, RMin(hi, v))

Abs(v) == IF v < 0 THEN -v ELSE v

----------------------------------------------------------------------------
(* The actuator (pynput keyboard.Controller): the set of keys that are     *)
(* down.  A call that succeeds changes the key; a call that fails raises   *)
(* and changes nothing.  ok.press / ok.release: whether the press / the    *)
(* release calls of the current operation succeed.                         *)

kb_press(down, key, ok) == IF ok.press THEN down \cup {key} ELSE down

kb_release(down, key, ok) == IF ok.release THEN down \ {key} ELSE down

AllOk == [press |-> TRUE, release |-> TRUE]

Oks(reliable) ==
    IF reliable THEN {AllOk} ELSE [press : BOOLEAN, release : BOOLEAN]

----------------------------------------------------------------------------
(* PulseState and the three actuation helpers.  A helper works on          *)
(* x = [st: the PulseState, down: the actuator, calls: the actuator calls  *)
(* issued so far by the running operation].  The except clauses swallow    *)
(* the actuator's failure, so the flag assignments always run.             *)

PulseState(key, mode) ==
    [key |-> key, mode |-> mode, pressed |-> FALSE, held |-> FALSE,
     last_pulse_time |-> 0, release_due |-> 0]

\* _ensure_released without `st.pressed = False`
_ensure_released_keeps_pressed(x, ok) ==
    LET issue == x.st.pressed \/ x.st.held
    IN  [st |-> [x.st EXCEPT !.held = FALSE, !.release_due = 0],
         down |-> IF issue THEN kb_release(x.down, x.st.key, ok) ELSE x.down,
         calls |-> IF issue THEN Append(x.calls, "release") ELSE x.calls]

\* _ensure_released without `st.held = False`
_ensure_released_keeps_held(x, ok) ==
    LET issue == x.st.pressed \/ x.st.held
    IN  [st |-> [x.st EXCEPT !.pressed = FALSE, !.release_due = 0],
         down |-> IF issue THEN kb_release(x.down, x.st.key, ok) ELSE x.down,
         calls |-> IF issue THEN Append(x.calls, "release") ELSE x.calls]

_ensure_released(x, ok) ==
    LET issue == x.st.pressed \/ x.st.held
    IN  [st |-> [x.st EXCEPT !.pressed = FALSE, !.held = FALSE, !.release_due = 0],
         down |-> IF issue THEN kb_release(x.down, x.st.key, ok) ELSE x.down,
         calls |-> IF issue THEN Append(x.calls, "release") ELSE x.calls]

\* _press without the `if not st.pressed` guard
_press_unguarded(x, ok) ==
    [st |-> [x.st EXCEPT !.pressed = TRUE],
     down |-> kb_press(x.down, x.st.key, ok),
     calls |-> Append(x.calls, "press")]

\* _press with `st.pressed = True` inside the try block
_press_in_try(x, ok) ==
    IF ~x.st.pressed
    THEN [st |-> [x.st EXCEPT !.pressed = ok.press],
          down |-> kb_press(x.down, x.st.key, ok),
          calls |-> Append(x.calls, "press")]
    ELSE x

_press(x, ok) ==
    IF ~x.st.pressed
    THEN [st |-> [x.st EXCEPT !.pressed = TRUE],
          down |-> kb_press(x.down, x.st.key, ok),
          calls |-> Append(x.calls, "press")]
    ELSE x

_release(x, ok) ==
    IF x.st.pressed
    THEN [st |-> [x.st EXCEPT !.pressed = FALSE],
          down |-> kb_release(x.down, x.st.key, ok),
          calls |-> Append(x.calls, "release")]
    ELSE x

----------------------------------------------------------------------------
(* update *)

\* the element of a one-element set (each step's result is computed once)
The(S) == CHOOSE v \in S : TRUE

\* a filter that does not damp the previous value:
\* `val = self.ema_alpha * raw_value + prev`
EMANum_undamped(raw_value, prev) == cfg.ema_num * raw_value + cfg.ema_den * prev

\* val = ema_alpha * raw_value + (1 - ema_alpha) * prev, numerator over ema_den
EMANum(raw_value, prev) ==
    cfg.ema_num * raw_value + (cfg.ema_den - cfg.ema_num) * prev

EMAExact(raw_value, prev) == EMANum(raw_value, prev) % cfg.ema_den = 0

EMA(raw_value, prev) == EMANum(raw_value, prev) \div cfg.ema_den

\* span = max(1e-6, hold_threshold - deadzone)
Span == RMax(Micro, <<cfg.hold_threshold - cfg.deadzone, Scale>>)

\* unit = clamp((mag - deadzone) / span, 0.0, 1.0)
Unit(mag) == clamp(RDiv(<<mag - cfg.deadzone, Scale>>, Span), <<0, 1>>, <<1, 1>>)

\* freq = min_hz + unit * (max_hz - min_hz)
Freq(mag) ==
    The({ <<cfg.min_hz * u[2] + u[1] * (cfg.max_hz - cfg.min_hz), u[2]>> :
            u \in {Unit(mag)} })

\* the interval of the highest frequency whatever the magnitude:
\* `interval = 1.0 / max_hz`
IntervalElapsed_max_hz(mag, elapsed) == elapsed * cfg.max_hz >= TicksPerSecond

\* now - last_pulse_time >= 1.0 / max(1e-6, freq), elapsed in ticks
IntervalElapsed(mag, elapsed) ==
    \E f \in {RMax(Micro, Freq(mag))} : elapsed * f[1] >= f[2] * TicksPerSecond

\* the deadzone branch with `elif st.pressed` in place of
\* `elif st.pressed and now >= st.release_due`
Deadzone_early(x, t, ok) ==
    IF x.st.held THEN _ensure_released(x, ok)
    ELSE IF x.st.pressed THEN _release(x, ok)
    ELSE x

\* the deadzone branch without `elif st.pressed and now >= st.release_due`
Deadzone_held_only(x, t, ok) == IF x.st.held THEN _ensure_released(x, ok) ELSE x

\* if mag <= self.deadzone: ... return
Deadzone(x, t, ok) ==
    IF x.st.held THEN _ensure_released(x, ok)
    ELSE IF x.st.pressed /\ t >= x.st.release_due THEN _release(x, ok)
    ELSE x

\* hold mode, and pulse mode with mag >= hold_threshold:
\* if not st.held: self._press(st); st.held = True
\* the hold branch without `st.held = True`
EnterHold_no_flag(x, ok) == IF ~x.st.held THEN _press(x, ok) ELSE x

\* the hold branch without `self._press(st)`
EnterHold_flag_only(x, ok) ==
    IF ~x.st.held THEN [x EXCEPT !.st.held = TRUE] ELSE x

EnterHold(x, ok) ==
    IF ~x.st.held
    THEN LET p == _press(x, ok) IN [p EXCEPT !.st.held = TRUE]
    ELSE x

\* leaving the hold without `self._release(st)`
LeaveHold_flag_only(x, ok) ==
    IF x.st.held THEN [x EXCEPT !.st.held = FALSE] ELSE x

\* In pulsing range: ensure we're not in hold mode
LeaveHold(x, ok) ==
    IF x.st.held
    THEN LET r == _release(x, ok) IN [r EXCEPT !.st.held = FALSE]
    ELSE x

\* Start a new pulse if interval elapsed
PulseStart(x, mag, t, ok) ==
    IF IntervalElapsed(mag, t - x.st.last_pulse_time)
    THEN LET p == _press(x, ok)
         IN  [p EXCEPT !.st.release_due = t + cfg.press_ms,
                       !.st.last_pulse_time = t]
    ELSE x

\* End pulse if its on-time elapsed
\* `now > st.release_due` in place of `now >= st.release_due`
PulseEnd_late(x, t, ok) ==
    IF x.st.pressed /\ t > x.st.release_due THEN _release(x, ok) ELSE x

PulseEnd(x, t, ok) ==
    IF x.st.pressed /\ t >= x.st.release_due THEN _release(x, ok) ELSE x

\* update without `if st.mode == "hold"`: an axis in hold mode is driven
\* like one in pulse mode
UpdateAxis_no_hold_mode(x, mag, t, ok) ==
    IF mag <= cfg.deadzone THEN Deadzone(x, t, ok)
    ELSE IF mag >= cfg.hold_threshold THEN EnterHold(x, ok)
    ELSE The({ PulseEnd(b, t, ok) :
                 b \in { PulseStart(a, mag, t, ok) : a \in {LeaveHold(x, ok)} } })

\* the high-magnitude hold only for thresholds in order:
\* `if self.hold_threshold > self.deadzone and mag >= self.hold_threshold`
UpdateAxis_ordered_only(x, mag, t, ok) ==
    IF mag <= cfg.deadzone THEN Deadzone(x, t, ok)
    ELSE IF x.st.mode = "hold" THEN EnterHold(x, ok)
    ELSE IF cfg.hold_threshold > cfg.deadzone /\ mag >= cfg.hold_threshold
         THEN EnterHold(x, ok)
    ELSE The({ PulseEnd(b, t, ok) :
                 b \in { PulseStart(a, mag, t, ok) : a \in {LeaveHold(x, ok)} } })

\* The body of update after the smoothing: x.st is the axis's PulseState,
\* mag the smoothed magnitude, t the caller's clock.
UpdateAxis(x, mag, t, ok) ==
    IF mag <= cfg.deadzone THEN Deadzone(x, t, ok)
    ELSE IF x.st.mode = "hold" THEN EnterHold(x, ok)
    ELSE IF mag >= cfg.hold_threshold THEN EnterHold(x, ok)
    ELSE The({ PulseEnd(b, t, ok) :
                 b \in { PulseStart(a, mag, t, ok) : a \in {LeaveHold(x, ok)} } })

\* self.filtered.get(name, 0.0)
FilteredGet(F, name) == IF name \in DOMAIN F THEN F[name] ELSE 0

\* update with the test of the name after the smoothing: the filter entry
\* is written before `if name not in self.states: return`
update_filters_unbound(S, F, down, name, raw_value, t, ok) ==
    LET val == EMA(raw_value, FilteredGet(F, name))
    IN  IF name \notin DOMAIN S
        THEN [states |-> S, filtered |-> (name :> val) @@ F, down |-> down,
              calls |-> <<>>]
        ELSE The({ [states |-> [S EXCEPT ![name] = r.st],
                    filtered |-> (name :> val) @@ F,
                    down |-> r.down,
                    calls |-> r.calls] :
                   r \in {UpdateAxis([st |-> S[name], down |-> down, calls |-> <<>>],
                                     Abs(val), t, ok)} })

update(S, F, down, name, raw_value, t, ok) ==
    IF name \notin DOMAIN S
    THEN [states |-> S, filtered |-> F, down |-> down, calls |-> <<>>]
    ELSE LET val == EMA(raw_value, FilteredGet(F, name))
         IN  The({ [states |-> [S EXCEPT ![name] = r.st],
                    filtered |-> (name :> val) @@ F,
                    down |-> r.down,
                    calls |-> r.calls] :
                   r \in {UpdateAxis([st |-> S[name], down |-> down, calls |-> <<>>],
                                     Abs(val), t, ok)} })

\* bind without `if mode not in ("pulse", "hold"): mode = "pulse"`
bind_uncoerced(S, F, name, key, mode) ==
    [states |-> (name :> PulseState(key, mode)) @@ S,
     filtered |-> (name :> 0) @@ F]

bind(S, F, name, key, mode) ==
    LET m == IF mode \notin {"pulse", "hold"} THEN "pulse" ELSE mode
    IN  [states |-> (name :> PulseState(key, m)) @@ S,
         filtered |-> (name :> 0) @@ F]

----------------------------------------------------------------------------
(* main: the button rising-edge dispatch.  A button vector is a sequence   *)
(* of 0/1; the source counts its indexes from 0, the sequence from 1.      *)

NumButtons == 15

\* _default_button_mapping, after the conversion loop: a list becomes a
\* tuple (a combo), any other value stays a single key
Single(k) == [tuple |-> FALSE, keys |-> <<k>>]
Combo(ks) == [tuple |-> TRUE, keys |-> ks]

button_mapping ==
    [idx \in 0..(NumButtons - 1) |->
        CASE idx = 0 -> Single("b")
          [] idx = 1 -> Single("alt_l")
          [] idx = 2 -> Single("ctrl_l")
          [] idx = 3 -> Single("shift_l")
          [] idx = 4 -> Single("esc")
          [] idx = 5 -> Single("o")
          [] idx = 6 -> Single("tab")
          [] idx = 7 -> Single("c")
          [] idx = 8 -> Single("space")
          [] idx = 9 -> Single("home")
          [] idx = 10 -> Single("m")
          [] idx = 11 -> Single("caps_lock")
          [] idx = 12 -> Single("i")
          [] idx = 13 -> Single("l")
          [] idx = 14 -> Combo(<<"shift", "space">>)]

\* button_mapping.get(idx) is not None
Mapped(idx) == idx \in DOMAIN button_mapping

\* The vectors the device reports: none (btns = []), every vector of
\* MaxButtons - 1 and of MaxButtons buttons, and the vectors of NumButtons + 1 buttons whose last
\* two entries are free (index 14, the combo, and index 15, which has no
\* mapping) and whose other entries are 0.
Zeros(n) == [i \in 1..n |-> 0]

ButtonVectors ==
    {<<>>}
    \cup UNION { [1..n -> {0, 1}] : n \in (MaxButtons - 1)..MaxButtons }
    \cup { Zeros(NumButtons - 1) \o v : v \in [1..2 -> {0, 1}] }

\* a tap that releases in the listed order: `for k in key` in place of
\* `for k in reversed(key)`
TapCalls_forward(key) ==
    LET n == Len(key.keys)
    IN  [i \in 1..n |-> <<"press", key.keys[i]>>]
        \o [i \in 1..n |-> <<"release", key.keys[i]>>]

\* The calls of one tap, in the order the source issues them: for a combo
\* press all, then release in reverse; for a single key press, release.
TapCalls(key) ==
    LET n == Len(key.keys)
    IN  [i \in 1..n |-> <<"press", key.keys[i]>>]
        \o [i \in 1..n |-> <<"release", key.keys[n + 1 - i]>>]

\* the actuator after a sequence of calls that succeed
RECURSIVE kb_apply(_, _)
kb_apply(down, calls) ==
    IF calls = <<>> THEN down
    ELSE kb_apply(IF Head(calls)[1] = "press"
                  THEN kb_press(down, Head(calls)[2], AllOk)
                  ELSE kb_release(down, Head(calls)[2], AllOk),
                  Tail(calls))

\* One tap: try: press ..., sleep, release ... except Exception: pass.
\* fail: the position of the call of the tap that raises, 0 when none
\* does; that call changes nothing and the calls after it are not made.
tap(down, key, fail) ==
    LET c == TapCalls(key)
        raised == fail \in 1..Len(c)
    IN  [down |-> kb_apply(down, SubSeq(c, 1, IF raised THEN fail - 1 ELSE Len(c))),
         calls |-> SubSeq(c, 1, IF raised THEN fail ELSE Len(c))]

\* if len(prev_buttons) != len(btns): prev_buttons = [0] * len(btns)
\* a reset to all-true: `[1] * len(btns)` in place of `[0] * len(btns)`
Resized_all_set(prev, btns) ==
    IF Len(prev) # Len(btns) THEN [i \in 1..Len(btns) |-> 1] ELSE prev

Resized(prev, btns) == IF Len(prev) # Len(btns) THEN Zeros(Len(btns)) ELSE prev

\* a level trigger: `if val` in place of `if val and not prev_buttons[idx]`
Rising_level(prev, btns, idx) == btns[idx + 1] # 0

\* if val and not prev_buttons[idx]
Rising(prev, btns, idx) ==
    btns[idx + 1] # 0 /\ Resized(prev, btns)[idx + 1] = 0

\* for idx, val in enumerate(btns): ..., from index idx up to index stop
\* (excluded); d carries the actuator, the indexes tapped and the calls
\* issued so far
RECURSIVE dispatch(_, _, _, _, _, _)
dispatch(prev, btns, idx, stop, d, fail) ==
    IF idx >= stop THEN d
    ELSE IF Rising(prev, btns, idx) /\ Mapped(idx)
         THEN dispatch(prev, btns, idx + 1, stop,
                       The({ [down |-> r.down,
                              taps |-> Append(d.taps, idx),
                              calls |-> d.calls \o r.calls] :
                             r \in {tap(d.down, button_mapping[idx], fail)} }),
                       fail)
         ELSE dispatch(prev, btns, idx + 1, stop, d, fail)

\* The whole block: if btns: ...; prev_buttons = btns
buttons(prev, down, btns, fail) ==
    IF btns = <<>>
    THEN [prev |-> prev, down |-> down, taps |-> <<>>, calls |-> <<>>]
    ELSE The({ [prev |-> btns, down |-> r.down, taps |-> r.taps, calls |-> r.calls] :
               r \in {dispatch(prev, btns, 0, Len(btns),
                               [down |-> down, taps |-> <<>>, calls |-> <<>>], fail)} })

----------------------------------------------------------------------------
(* The controller's operations as steps.  `reliable`: the actuator of this *)
(* step cannot fail.                                                       *)

\* hist[n].dz: the calls issued for axis n by the current run of consecutive
\*   update calls whose smoothed magnitude is within the deadzone;
\* hist[n].since: the time of the press call that put n's key down, -1 when
\*   the latest call issued for the key is no press;
\* hist[n].steady: every update call since that press came no later than
\*   press_ms after the call before it and saw a magnitude in the pulsing range.
\* hist[n].rz: as dz, for the run of update calls whose raw value is within
\*   the deadzone.
NoHist == [dz |-> <<>>, rz |-> <<>>, since |-> -1, steady |-> TRUE]

InBand(mag) == cfg.deadzone < mag /\ mag < cfg.hold_threshold

Track(h, calls, op, raw, mag, t, dt) ==
    LET n  == Len(calls)
        up == IF n = 0 THEN h.since < 0 ELSE calls[n] = "release"
    IN  [dz |-> IF op = "update" /\ mag <= cfg.deadzone THEN h.dz \o calls ELSE <<>>,
         rz |-> IF op = "update" /\ Abs(raw) <= cfg.deadzone THEN h.rz \o calls ELSE <<>>,
         since |-> IF up THEN -1 ELSE IF n = 0 THEN h.since ELSE t,
         steady |-> IF up THEN TRUE
                    ELSE IF n > 0 THEN op = "update" /\ InBand(mag)
                    ELSE h.steady /\ op = "update" /\ InBand(mag)
                                  /\ dt <= cfg.press_ms]

NoOp == [op |-> "init", name |-> "", raw |-> 0, calls |-> <<>>]

Issues(calls, c) == \E i \in 1..Len(calls) : calls[i] = c

\* the local `state` with no sample in it: before the first sm_read(), and
\* after an sm_read() that returned nothing (None)
NoState == [none |-> TRUE]

Modes == {"pulse", "hold", "toggle"}

\* main before its loop: prev_buttons = [0] * 15, nothing polled yet
LoopStart ==
    /\ prev_buttons = [i \in 1..NumButtons |-> 0]
    /\ polls = <<>>
    /\ pc = "read"
    /\ state = NoState
    /\ pressed_keys = {}
    /\ keys_should_be_pressed = {}
    /\ remaining = {}

\* the same with last_mode = initial_mode for the mode main starts in when
\* nothing is configured (MODE_START_IN_CHARACTER_MODE False: "pulse")
HostStart == LoopStart /\ last_mode = "pulse"

Init ==
    /\ cfg \in Configs
    /\ states = <<>>
    /\ filtered = <<>>
    /\ now = 0
    /\ kbDown = {}
    /\ last = NoOp
    /\ hist = [n \in Names |-> NoHist]
    /\ HostStart

Bind(name, mode) ==
    LET r == bind(states, filtered, name, axis_mapping[name], mode)
    IN  /\ states' = r.states
        /\ filtered' = r.filtered
        /\ last' = [op |-> "bind", name |-> name, raw |-> 0, calls |-> <<>>]
        /\ UNCHANGED <<cfg, now, kbDown, host>>

Update(name, raw, dt, reliable) ==
    /\ now' = now + dt
    /\ name \in DOMAIN states => EMAExact(raw, FilteredGet(filtered, name))
    /\ \E ok \in Oks(reliable) :
          \E r \in {update(states, filtered, kbDown, name, raw, now + dt, ok)} :
              /\ states' = r.states
              /\ filtered' = r.filtered
              /\ kbDown' = r.down
              /\ last' = [op |-> "update", name |-> name, raw |-> raw,
                          calls |-> r.calls]
    /\ UNCHANGED <<cfg, host>>

ForceRelease(name, reliable) ==
    /\ name \in DOMAIN states
    /\ \E ok \in Oks(reliable) :
          \E r \in {_ensure_released([st |-> states[name], down |-> kbDown,
                                      calls |-> <<>>], ok)} :
              /\ states' = [states EXCEPT ![name] = r.st]
              /\ kbDown' = r.down
              /\ last' = [op |-> "release", name |-> name, raw |-> 0,
                          calls |-> r.calls]
    /\ UNCHANGED <<cfg, filtered, now, host>>

\* Any sequence of bind, update and forced release, with a reliable actuator.
Next ==
    \/ \E name \in Names, mode \in Modes : Bind(name, mode) /\ UNCHANGED hist
    \/ \E name \in Names, raw \in RawValues, dt \in 0..MaxDt :
          /\ now + dt <= ApiMaxTime
          /\ Update(name, raw, dt, TRUE)
          /\ UNCHANGED hist
    \/ \E name \in Names : ForceRelease(name, TRUE) /\ UNCHANGED hist

Spec == Init /\ [][Next]_vars

----------------------------------------------------------------------------
(* One controller with one bound axis, as after the constructor and one    *)
(* bind call; the caller updates and force-releases that axis, the clock   *)
(* it passes never runs backwards.                                         *)

EngineInit ==
    /\ cfg \in Configs
    /\ \E mode \in {"pulse", "hold"} :
          LET r == bind(<<>>, <<>>, "move_left", axis_mapping["move_left"], mode)
          IN  states = r.states /\ filtered = r.filtered
    /\ now = 0
    /\ kbDown = {}
    /\ last = NoOp
    /\ hist = [n \in Names |-> NoHist]
    /\ HostStart

TrackedUpdate(name, raw, dt, reliable) ==
    /\ Update(name, raw, dt, reliable)
    /\ hist' = [hist EXCEPT ![name] =
                   Track(@, last'.calls, "update", raw, Abs(filtered'[name]), now', dt)]

TrackedRelease(name, reliable) ==
    /\ ForceRelease(name, reliable)
    /\ hist' = [hist EXCEPT ![name] = Track(@, last'.calls, "release", 0, 0, now, 0)]

EngineNext ==
    \/ \E name \in DOMAIN states, raw \in RawValues, dt \in 0..MaxDt :
          now + dt <= MaxTime /\ TrackedUpdate(name, raw, dt, TRUE)
    \/ \E name \in DOMAIN states : TrackedRelease(name, TRUE)

EngineSpec == EngineInit /\ [][EngineNext]_vars

\* The same with an actuator whose calls may fail, and with bind calls on
\* the bound name.
FailNext ==
    \/ \E name \in DOMAIN states, raw \in RawValues, dt \in 0..MaxDt :
          now + dt <= MaxTime /\ TrackedUpdate(name, raw, dt, FALSE)
    \/ \E name \in DOMAIN states : TrackedRelease(name, FALSE)
    \/ \E name \in DOMAIN states, mode \in Modes :
          Bind(name, mode) /\ hist' = [hist EXCEPT ![name] = NoHist]

FailSpec == EngineInit /\ [][FailNext]_vars

----------------------------------------------------------------------------
(* One axis bound in pulse mode and polled by update calls only, to measure *)
(* the distance between presses.  Here hist[n] describes the current run   *)
(* of update calls with one and the same smoothed magnitude in the linear  *)
(* band:                                                                   *)
(*   mag: that magnitude (-1: the last magnitude was outside the band);    *)
(*   press, release: the clock of the last press of the run and of the     *)
(*     release that ended that pulse (-1: none);                           *)
(*   gap, width, period: set by a call that presses after an earlier press *)
(*     of the run: the time since that press, the time that pulse was      *)
(*     down (-1: not released by a call of the run) and the time since the *)
(*     call before (gap = -1 after any other call).                        *)

NoRun == [mag |-> -1, press |-> -1, release |-> -1, gap |-> -1, width |-> -1,
          period |-> 0]

TrackRun(h, calls, mag, t, dt) ==
    LET same   == InBand(mag) /\ mag = h.mag
        again  == same /\ Issues(calls, "press") /\ h.press >= 0
    IN  [mag |-> IF InBand(mag) THEN mag ELSE -1,
         press |-> IF InBand(mag) /\ Issues(calls, "press") THEN t
                   ELSE IF same THEN h.press ELSE -1,
         release |-> IF Issues(calls, "press") \/ ~same THEN -1
                     ELSE IF Issues(calls, "release") THEN t ELSE h.release,
         gap |-> IF again THEN t - h.press ELSE -1,
         width |-> IF again /\ h.release >= 0 THEN h.release - h.press ELSE -1,
         period |-> dt]

PulseInit ==
    /\ cfg \in Configs
    /\ LET r == bind(<<>>, <<>>, "move_left", axis_mapping["move_left"], "pulse")
       IN  states = r.states /\ filtered = r.filtered
    /\ now = 0
    /\ kbDown = {}
    /\ last = NoOp
    /\ hist = [n \in Names |-> NoRun]
    /\ HostStart

PulseNext ==
    \E name \in DOMAIN states, raw \in RawValues, dt \in 0..MaxDt :
        /\ now + dt <= MaxTime
        /\ Update(name, raw, dt, TRUE)
        /\ hist' = [hist EXCEPT ![name] =
                       TrackRun(@, last'.calls, Abs(filtered'[name]), now', dt)]

PulseSpec == PulseInit /\ [][PulseNext]_vars

----------------------------------------------------------------------------
(* A controller constructed with hold_threshold <= deadzone (the           *)
(* constructor accepts any values, l.120-136), one axis bound in pulse     *)
(* mode, updated and force-released by the caller.                         *)

MisConfigs ==
    { [c EXCEPT !.deadzone = Scale \div 2, !.hold_threshold = h] :
        c \in Configs, h \in {Scale \div 4, Scale \div 2} }

MisInit ==
    /\ cfg \in MisConfigs
    /\ LET r == bind(<<>>, <<>>, "move_left", axis_mapping["move_left"], "pulse")
       IN  states = r.states /\ filtered = r.filtered
    /\ now = 0
    /\ kbDown = {}
    /\ last = NoOp
    /\ hist = [n \in Names |-> NoHist]
    /\ HostStart

MisNext ==
    \/ \E name \in DOMAIN states, raw \in RawValues, dt \in 0..MaxDt :
          /\ now + dt <= MaxTime
          /\ Update(name, raw, dt, TRUE)
          /\ UNCHANGED hist
    \/ \E name \in DOMAIN states : ForceRelease(name, TRUE) /\ UNCHANGED hist

MisSpec == MisInit /\ [][MisNext]_vars

----------------------------------------------------------------------------
(* The smoothing filter of one bound axis under samples of either sign.    *)
(* Here hist[n] describes the samples of axis n since its bind:            *)
(*   bound: the largest magnitude of a raw sample;                         *)
(*   c, n: the raw value and the number of calls of the current run of     *)
(*     update calls with one raw value c > 0 that started from the         *)
(*     filtered value 0 (c = -1, n = 0: no such run);                      *)
(*   before: the filtered value before the last call.                      *)

SignedRawValues == RawValues \cup { -r : r \in RawValues }

NoSamples == [bound |-> 0, c |-> -1, n |-> 0, before |-> 0]

TrackFilter(h, raw, before) ==
    LET starts == raw > 0 /\ before = 0
        goes   == raw > 0 /\ h.c = raw /\ ~starts
    IN  [bound |-> IF Abs(raw) > h.bound THEN Abs(raw) ELSE h.bound,
         c |-> IF starts \/ goes THEN raw ELSE -1,
         n |-> IF starts THEN 1 ELSE IF goes THEN h.n + 1 ELSE 0,
         before |-> before]

FilterInit ==
    /\ cfg \in Configs
    /\ \E mode \in {"pulse", "hold"} :
          LET r == bind(<<>>, <<>>, "move_left", axis_mapping["move_left"], mode)
          IN  states = r.states /\ filtered = r.filtered
    /\ now = 0
    /\ kbDown = {}
    /\ last = NoOp
    /\ hist = [n \in Names |-> NoSamples]
    /\ HostStart

FilterNext ==
    \/ \E name \in DOMAIN states, raw \in SignedRawValues, dt \in 1..MaxDt :
          /\ now + dt <= MaxTime
          /\ Update(name, raw, dt, TRUE)
          /\ hist' = [hist EXCEPT ![name] = TrackFilter(@, raw, filtered[name])]
    \/ \E name \in DOMAIN states :
          /\ Bind(name, states[name].mode)
          /\ hist' = [hist EXCEPT ![name] = NoSamples]

FilterSpec == FilterInit /\ [][FilterNext]_vars

----------------------------------------------------------------------------
(* One bound axis under every operation a caller has: update, forced       *)
(* release, bind again, and the direct write of the mode that main uses    *)
(* for a mode change (ik.states[name].mode = current_mode), in any order   *)
(* and with an actuator whose calls may fail.                              *)

SetMode(name, mode) ==
    /\ name \in DOMAIN states
    /\ states' = [states EXCEPT ![name].mode = mode]
    /\ last' = [op |-> "mode", name |-> name, raw |-> 0, calls |-> <<>>]
    /\ hist' = [hist EXCEPT ![name] = NoHist]
    /\ UNCHANGED <<cfg, filtered, now, kbDown, host>>

SwitchNext ==
    \/ FailNext
    \/ \E name \in DOMAIN states, mode \in {"pulse", "hold"} : SetMode(name, mode)

SwitchSpec == EngineInit /\ [][SwitchNext]_vars

----------------------------------------------------------------------------
(* The poll loop keeps calling update with a later clock (main: while True, *)
(* now = time.time(), one update per axis and tick).  The clock of the     *)
(* model stops at MaxTime for an axis that is driven; an axis whose        *)
(* smoothed magnitude is within the deadzone is polled for press_ms more,  *)
(* the time a pulse started at MaxTime needs to run out.                   *)

InTime(name, raw, dt) ==
    \/ now + dt <= MaxTime
    \/ /\ now + dt <= MaxTime + cfg.press_ms
       /\ raw = 0
       /\ Abs(EMA(raw, FilteredGet(filtered, name))) <= cfg.deadzone

Poll(name, raw, dt) == InTime(name, raw, dt) /\ TrackedUpdate(name, raw, dt, TRUE)

LiveNext ==
    \/ \E name \in DOMAIN states, raw \in RawValues, dt \in 0..MaxDt :
          Poll(name, raw, dt)
    \/ \E name \in DOMAIN states : TrackedRelease(name, TRUE)

Polled == \E name \in DOMAIN states, raw \in RawValues, dt \in 1..MaxDt :
             Poll(name, raw, dt)

LiveSpec == EngineInit /\ [][LiveNext]_vars /\ WF_vars(Polled)

----------------------------------------------------------------------------
(* The button dispatch of one poll as a step, with the actuator reliable.  *)
(* polls keeps the latest polls, as many as the worked example has.        *)

\* the button vectors of the specification's worked example
Example == << <<0, 0>>, <<1, 0>>, <<1, 1>>, <<0, 0>> >>

Window(q) == IF Len(q) > Len(Example) THEN Tail(q) ELSE q

ButtonPoll(btns, fail) ==
    /\ \E r \in {buttons(prev_buttons, kbDown, btns, fail)} :
          /\ prev_buttons' = r.prev
          /\ kbDown' = r.down
          /\ polls' = Window(Append(polls, [btns |-> btns, taps |-> r.taps,
                                            calls |-> r.calls]))
    /\ UNCHANGED <<cfg, states, filtered, now, last, hist, pc, state, last_mode, bridge>>

ButtonInit ==
    /\ cfg = CHOOSE c \in Configs : TRUE
    /\ states = <<>>
    /\ filtered = <<>>
    /\ now = 0
    /\ kbDown = {}
    /\ last = NoOp
    /\ hist = [n \in Names |-> NoHist]
    /\ HostStart

ButtonNext == \E btns \in ButtonVectors : ButtonPoll(btns, 0)

ButtonSpec == ButtonInit /\ [][ButtonNext]_vars

----------------------------------------------------------------------------
(* The button block with an actuator of which one call per tap may raise.  *)
(* polls holds the latest poll only.                                       *)

\* 0: no call raises; k: the k-th call of each tap of the poll raises
TapFailures == 0..Len(TapCalls(button_mapping[NumButtons - 1]))

FailPoll(btns, fail) ==
    /\ \E r \in {buttons(prev_buttons, kbDown, btns, fail)} :
          /\ prev_buttons' = r.prev
          /\ kbDown' = r.down
          /\ polls' = << [btns |-> btns, taps |-> r.taps, calls |-> r.calls] >>
    /\ UNCHANGED <<cfg, states, filtered, now, last, hist, pc, state, last_mode, bridge>>

TapFailNext == \E btns \in ButtonVectors, fail \in TapFailures : FailPoll(btns, fail)

TapFailSpec == ButtonInit /\ [][TapFailNext]_vars

----------------------------------------------------------------------------
(* main: the poll loop on the X axis (move_right / move_left) and the      *)
(* buttons, and its end.  pc: "read" before sm_read(), "x_first" and       *)
(* "x_second" before the first and the second update of the X axis,        *)
(* "buttons" before the button block, "exited" after the finally block.    *)
(* The loop has no exit of its own; it ends with a KeyboardInterrupt,      *)
(* which no `except Exception` catches, so that it cuts short whatever     *)
(* runs and control passes to the finally block.                           *)

HostX == {-Scale, 0, Scale}

HostVectors == {v \in ButtonVectors : Len(v) \in {0, MaxButtons}}

\* if x >= 0: update("move_right", x, now); update("move_left", 0.0, now)
\* else:      update("move_left", -x, now); update("move_right", 0.0, now)
XFirst(x) == IF x >= 0 THEN [name |-> "move_right", raw |-> x]
                       ELSE [name |-> "move_left", raw |-> -x]

XSecond(x) == IF x >= 0 THEN [name |-> "move_left", raw |-> 0]
                        ELSE [name |-> "move_right", raw |-> 0]

\* finally: for st in ik.states.values(): if st.pressed or st.held:
\* kb.release(st.key).  No flag is changed, no button key is looked at.
shutdown(S, down, ok) ==
    IF ok.release
    THEN down \ { S[n].key : n \in {m \in DOMAIN S : S[m].pressed \/ S[m].held} }
    ELSE down

\* update, effect by effect.  A KeyboardInterrupt is no Exception: no
\* except clause of the engine catches it, so that it can end update after
\* any of its effects (the filter write, an actuator call, a flag or a time
\* assignment).  Each operator below gives the values of x after each
\* effect of the helper it is named after, in order, with a reliable
\* actuator; the last one is the helper's result.
LastOf(steps, x) == IF steps = <<>> THEN x ELSE steps[Len(steps)]

_press_steps(x) ==
    IF ~x.st.pressed
    THEN LET k == [x EXCEPT !.down = kb_press(x.down, x.st.key, AllOk),
                            !.calls = Append(x.calls, "press")]
         IN  <<k, [k EXCEPT !.st.pressed = TRUE]>>
    ELSE <<>>

_release_steps(x) ==
    IF x.st.pressed
    THEN LET k == [x EXCEPT !.down = kb_release(x.down, x.st.key, AllOk),
                            !.calls = Append(x.calls, "release")]
         IN  <<k, [k EXCEPT !.st.pressed = FALSE]>>
    ELSE <<>>

_ensure_released_steps(x) ==
    LET issue == x.st.pressed \/ x.st.held
        k == IF issue
             THEN [x EXCEPT !.down = kb_release(x.down, x.st.key, AllOk),
                            !.calls = Append(x.calls, "release")]
             ELSE x
        p == [k EXCEPT !.st.pressed = FALSE]
        h == [p EXCEPT !.st.held = FALSE]
    IN  (IF issue THEN <<k>> ELSE <<>>)
        \o <<p, h, [h EXCEPT !.st.release_due = 0]>>

Deadzone_steps(x, t) ==
    IF x.st.held THEN _ensure_released_steps(x)
    ELSE IF x.st.pressed /\ t >= x.st.release_due THEN _release_steps(x)
    ELSE <<>>

EnterHold_steps(x) ==
    IF ~x.st.held
    THEN LET p == _press_steps(x)
         IN  Append(p, [LastOf(p, x) EXCEPT !.st.held = TRUE])
    ELSE <<>>

LeaveHold_steps(x) ==
    IF x.st.held
    THEN LET r == _release_steps(x)
         IN  Append(r, [LastOf(r, x) EXCEPT !.st.held = FALSE])
    ELSE <<>>

PulseStart_steps(x, mag, t) ==
    IF IntervalElapsed(mag, t - x.st.last_pulse_time)
    THEN LET p == _press_steps(x)
             d == [LastOf(p, x) EXCEPT !.st.release_due = t + cfg.press_ms]
         IN  p \o <<d, [d EXCEPT !.st.last_pulse_time = t]>>
    ELSE <<>>

PulseEnd_steps(x, t) ==
    IF x.st.pressed /\ t >= x.st.release_due THEN _release_steps(x) ELSE <<>>

UpdateAxis_steps(x, mag, t) ==
    IF mag <= cfg.deadzone THEN Deadzone_steps(x, t)
    ELSE IF x.st.mode = "hold" THEN EnterHold_steps(x)
    ELSE IF mag >= cfg.hold_threshold THEN EnterHold_steps(x)
    ELSE LET a == LeaveHold_steps(x)
             b == a \o PulseStart_steps(LastOf(a, x), mag, t)
         IN  b \o PulseEnd_steps(LastOf(b, x), t)

\* The engine after each effect of update(name, raw_value, now): first the
\* write of self.filtered[name], then the effects of the branch taken.
update_steps(S, F, down, name, raw_value, t) ==
    IF name \notin DOMAIN S THEN <<>>
    ELSE LET val == EMA(raw_value, FilteredGet(F, name))
             x0  == [st |-> S[name], down |-> down, calls |-> <<>>]
         IN  The({ [i \in 1..(Len(steps) + 1) |->
                      The({ [states |-> [S EXCEPT ![name] = x.st],
                             filtered |-> (name :> val) @@ F,
                             down |-> x.down,
                             calls |-> x.calls] :
                            x \in {IF i = 1 THEN x0 ELSE steps[i - 1]} })] :
                   steps \in {UpdateAxis_steps(x0, Abs(val), t)} })

\* the most effects one update has: the filter write, three to leave the
\* hold, four to start a pulse, two to end it
MaxSteps == 1 + 3 + 4 + 2

HostInit ==
    /\ cfg \in Configs
    /\ \E initial_mode \in {"pulse", "hold"} :
          LET l == bind(<<>>, <<>>, "move_left", axis_mapping["move_left"], initial_mode)
              r == bind(l.states, l.filtered, "move_right", axis_mapping["move_right"],
                        initial_mode)
          IN  states = r.states /\ filtered = r.filtered /\ last_mode = initial_mode
    /\ now = 0
    /\ kbDown = {}
    /\ last = NoOp
    /\ hist = [n \in Names |-> NoHist]
    /\ LoopStart

\* state = sm_read(); now = time.time(), with a sample
HostRead(x, btns, dt) ==
    /\ pc = "read"
    /\ now + dt <= HostMaxTime
    /\ EMAExact(XFirst(x).raw, filtered[XFirst(x).name])
    /\ EMAExact(0, filtered[XSecond(x).name])
    /\ now' = now + dt
    /\ state' = [x |-> x, buttons |-> btns]
    /\ pc' = "x_first"
    /\ UNCHANGED <<cfg, states, filtered, kbDown, last, hist, prev_buttons, polls, last_mode, bridge>>

\* if not state: time.sleep(0.005); continue
HostReadNothing(dt) ==
    /\ pc = "read"
    /\ now + dt <= HostMaxTime
    /\ now' = now + dt
    /\ state' = NoState
    /\ UNCHANGED <<cfg, states, filtered, kbDown, last, hist, prev_buttons, polls, pc,
                   last_mode, bridge>>

HostUpdate(u, next) ==
    /\ \E r \in {update(states, filtered, kbDown, u.name, u.raw, now, AllOk)} :
          /\ states' = r.states
          /\ filtered' = r.filtered
          /\ kbDown' = r.down
          /\ last' = [op |-> "update", name |-> u.name, raw |-> u.raw,
                      calls |-> r.calls]
    /\ pc' = next
    /\ UNCHANGED <<cfg, now, hist, prev_buttons, polls, state, last_mode, bridge>>

HostAxisFirst == pc = "x_first" /\ HostUpdate(XFirst(state.x), "x_second")

HostAxisSecond == pc = "x_second" /\ HostUpdate(XSecond(state.x), "buttons")

\* the button block, then time.sleep(0.005) and the next round
HostButtons ==
    /\ pc = "buttons"
    /\ \E r \in {buttons(prev_buttons, kbDown, state.buttons, 0)} :
          /\ prev_buttons' = r.prev
          /\ kbDown' = r.down
    /\ pc' = "read"
    /\ UNCHANGED <<cfg, states, filtered, now, last, hist, polls, state, last_mode, bridge>>

\* KeyboardInterrupt between two statements of the loop body
Interrupt ==
    /\ pc \in {"read", "x_first", "x_second", "buttons"}
    /\ kbDown' = shutdown(states, kbDown, AllOk)
    /\ pc' = "exited"
    /\ UNCHANGED <<cfg, states, filtered, now, last, hist, prev_buttons, polls, state, last_mode, bridge>>

\* KeyboardInterrupt between `state = sm_read()` and `now = time.time()`:
\* s is what sm_read returned, a sample or nothing; the clock of the round
\* is not stored
InterruptInRead(s) ==
    /\ pc = "read"
    /\ state' = s
    /\ kbDown' = shutdown(states, kbDown, AllOk)
    /\ pc' = "exited"
    /\ UNCHANGED <<cfg, states, filtered, now, last, hist, prev_buttons, polls,
                   last_mode, bridge>>

\* KeyboardInterrupt inside update, after k of its effects and before the
\* next one
InterruptInUpdate(k) ==
    /\ pc \in {"x_first", "x_second"}
    /\ \E u \in {IF pc = "x_first" THEN XFirst(state.x) ELSE XSecond(state.x)} :
          \E steps \in {update_steps(states, filtered, kbDown, u.name, u.raw, now)} :
             /\ k \in 1..(Len(steps) - 1)
             /\ states' = steps[k].states
             /\ filtered' = steps[k].filtered
             /\ kbDown' = shutdown(steps[k].states, steps[k].down, AllOk)
             /\ last' = [op |-> "update", name |-> u.name, raw |-> u.raw,
                         calls |-> steps[k].calls]
    /\ pc' = "exited"
    /\ UNCHANGED <<cfg, now, hist, prev_buttons, polls, state, last_mode, bridge>>

\* KeyboardInterrupt in the button block between two taps, after
\* `if len(prev_buttons) != len(btns): prev_buttons = [0] * len(btns)`
InterruptInButtons ==
    /\ pc = "buttons"
    /\ state.buttons # <<>>
    /\ prev_buttons' = Resized(prev_buttons, state.buttons)
    /\ kbDown' = shutdown(states, kbDown, AllOk)
    /\ pc' = "exited"
    /\ UNCHANGED <<cfg, states, filtered, now, last, hist, polls, state, last_mode, bridge>>

\* KeyboardInterrupt inside the tap of button idx, after k of its calls
InterruptInTap(idx, k) ==
    /\ pc = "buttons"
    /\ idx \in 0..(Len(state.buttons) - 1)
    /\ Rising(prev_buttons, state.buttons, idx) /\ Mapped(idx)
    /\ k \in 1..(Len(TapCalls(button_mapping[idx])) - 1)
    /\ \E d \in {dispatch(prev_buttons, state.buttons, 0, idx,
                          [down |-> kbDown, taps |-> <<>>, calls |-> <<>>], 0)} :
          kbDown' = shutdown(states,
                             kb_apply(d.down, SubSeq(TapCalls(button_mapping[idx]), 1, k)),
                             AllOk)
    /\ prev_buttons' = Resized(prev_buttons, state.buttons)
    /\ pc' = "exited"
    /\ UNCHANGED <<cfg, states, filtered, now, last, hist, polls, state, last_mode, bridge>>

HostNext ==
    \/ \E x \in HostX, btns \in HostVectors, dt \in 1..MaxDt : HostRead(x, btns, dt)
    \/ \E dt \in 1..MaxDt : HostReadNothing(dt)
    \/ HostAxisFirst
    \/ HostAxisSecond
    \/ HostButtons
    \/ Interrupt
    \/ \E x \in HostX, btns \in HostVectors : InterruptInRead([x |-> x, buttons |-> btns])
    \/ InterruptInRead(NoState)
    \/ \E k \in 1..MaxSteps : InterruptInUpdate(k)
    \/ InterruptInButtons
    \/ \E idx \in DOMAIN button_mapping :
          \E k \in 1..Len(TapCalls(button_mapping[idx])) : InterruptInTap(idx, k)

HostSpec == HostInit /\ [][HostNext]_vars

----------------------------------------------------------------------------
(* main: the poll loop with the mode signal, on the X pair (movement axes, *)
(* whose mode follows the signal) and the yaw pair (rotate axes, always in *)
(* hold mode); the pairs Y, Z and pitch are driven the same way and are    *)
(* left out.  pc: "mode" before the check for a mode change, "yaw_first"   *)
(* and "yaw_second" before the updates of the yaw pair.                    *)

\* the movement axes of the model
Movement == Names

ModeYaw == {-Scale, 0, Scale}

\* INVERT_YAW = _cfg('invert_yaw', True, bool): the value without a
\* spacemouse_config.yaml that sets invert_yaw
INVERT_YAW == TRUE

\* yaw = state.yaw; if INVERT_YAW: yaw = -yaw
LocalYaw(s) == IF INVERT_YAW THEN -s.yaw ELSE s.yaw

\* if yaw >= 0: update("rotate_right", yaw, now); update("rotate_left", 0.0, now)
\* else:        update("rotate_left", -yaw, now); update("rotate_right", 0.0, now)
YawFirst(yaw) == IF yaw >= 0 THEN [name |-> "rotate_right", raw |-> yaw]
                             ELSE [name |-> "rotate_left", raw |-> -yaw]

YawSecond(yaw) == IF yaw >= 0 THEN [name |-> "rotate_left", raw |-> 0]
                              ELSE [name |-> "rotate_right", raw |-> 0]

\* for name in [...]: ik._ensure_released(ik.states[name]), over the names
\* in order; x = [states, down, calls]
RECURSIVE release_each(_, _, _)
release_each(x, names, ok) ==
    IF names = <<>> THEN x
    ELSE release_each(
           The({ [states |-> [x.states EXCEPT ![Head(names)] = r.st],
                  down |-> r.down, calls |-> r.calls] :
                 r \in {_ensure_released([st |-> x.states[Head(names)],
                                          down |-> x.down, calls |-> x.calls], ok)} }),
           Tail(names), ok)

\* a mode change that leaves the keys alone: the loop over the names with
\* _ensure_released is missing
mode_change_no_release(S, down, current_mode, ok) ==
    [states |-> [n \in DOMAIN S |->
                   IF n \in Movement THEN [S[n] EXCEPT !.mode = current_mode]
                   ELSE S[n]],
     down |-> down, calls |-> <<>>]

\* ik.states[name].mode = current_mode for the movement axes, then the
\* forced release of each of them
mode_change(S, down, current_mode, ok) ==
    release_each([states |-> [n \in DOMAIN S |->
                                IF n \in Movement
                                THEN [S[n] EXCEPT !.mode = current_mode]
                                ELSE S[n]],
                  down |-> down, calls |-> <<>>],
                 <<"move_left", "move_right">>, ok)

ModeInit ==
    /\ cfg \in Configs
    /\ \E initial_mode \in {"pulse", "hold"} :
          LET l  == bind(<<>>, <<>>, "move_left", axis_mapping["move_left"], initial_mode)
              r  == bind(l.states, l.filtered, "move_right", axis_mapping["move_right"],
                         initial_mode)
              rl == bind(r.states, r.filtered, "rotate_left",
                         axis_mapping["rotate_left"], "hold")
              rr == bind(rl.states, rl.filtered, "rotate_right",
                         axis_mapping["rotate_right"], "hold")
          IN  states = rr.states /\ filtered = rr.filtered /\ last_mode = initial_mode
    /\ now = 0
    /\ kbDown = {}
    /\ last = NoOp
    /\ hist = [n \in Names |-> NoHist]
    /\ LoopStart

\* state = sm_read(); now = time.time(), with a sample
ModeRead(x, yaw, dt) ==
    /\ pc = "read"
    /\ now + dt <= HostMaxTime
    /\ EMAExact(XFirst(x).raw, filtered[XFirst(x).name])
    /\ EMAExact(0, filtered[XSecond(x).name])
    /\ \E y \in {LocalYaw([yaw |-> yaw])} :
          /\ EMAExact(YawFirst(y).raw, filtered[YawFirst(y).name])
          /\ EMAExact(0, filtered[YawSecond(y).name])
    /\ now' = now + dt
    /\ state' = [x |-> x, yaw |-> yaw, buttons |-> <<>>]
    /\ pc' = "mode"
    /\ UNCHANGED <<cfg, states, filtered, kbDown, last, hist, prev_buttons, polls,
                   last_mode, bridge>>

\* current_mode = get_movement_mode(); if current_mode != last_mode: ...
ModeCheck(current_mode) ==
    /\ pc = "mode"
    /\ IF current_mode # last_mode
       THEN \E r \in {mode_change(states, kbDown, current_mode, AllOk)} :
               /\ states' = r.states
               /\ kbDown' = r.down
               /\ last' = [op |-> "mode", name |-> "", raw |-> 0, calls |-> r.calls]
               /\ last_mode' = current_mode
       ELSE UNCHANGED <<states, kbDown, last, last_mode>>
    /\ pc' = "x_first"
    /\ UNCHANGED <<cfg, filtered, now, hist, prev_buttons, polls, state, bridge>>

ModeXSecond == pc = "x_second" /\ HostUpdate(XSecond(state.x), "yaw_first")

ModeYawFirst == pc = "yaw_first" /\ HostUpdate(YawFirst(LocalYaw(state)), "yaw_second")

ModeYawSecond == pc = "yaw_second" /\ HostUpdate(YawSecond(LocalYaw(state)), "buttons")

ModeNext ==
    \/ \E x \in HostX, yaw \in ModeYaw, dt \in 1..MaxDt : ModeRead(x, yaw, dt)
    \/ \E dt \in 1..MaxDt : HostReadNothing(dt)
    \/ \E current_mode \in {"pulse", "hold"} : ModeCheck(current_mode)
    \/ HostAxisFirst
    \/ ModeXSecond
    \/ ModeYawFirst
    \/ ModeYawSecond
    \/ HostButtons

ModeSpec == ModeInit /\ [][ModeNext]_vars

----------------------------------------------------------------------------
(* spacemouse_keyboard.py, main: the direct bridge.  A motion report sets  *)
(* keys_should_be_pressed from the signs of four axes; the keys tracked in *)
(* pressed_keys and not wanted are released one by one, then the wanted    *)
(* keys not tracked are pressed one by one (the order within each loop is  *)
(* the iteration order of a set: any).  pc: "read" before h.read(64),      *)
(* "release" in the release loop, "press" in the press loop, "except" in   *)
(* the loop of the KeyboardInterrupt handler, "finally" before the finally *)
(* block, "closing" in the loop of the finally block, "exited" after it.   *)
(* An axis of a report is the pair of its two bytes.  The loop ends with a *)
(* KeyboardInterrupt, whose handler releases the keys in pressed_keys, or  *)
(* with an exception of the device or the actuator, whose handler prints   *)
(* it; the finally block then closes the device and releases the keys in   *)
(* pressed_keys again.  Neither removes a key from pressed_keys; a release *)
(* that raises in them is swallowed.  An actuator call that raises changes *)
(* nothing.  last.calls: the actuator calls of the latest step, each       *)
(* <<"press" or "release", key>>, the one that raised included.            *)

max_range == 350

threshold == 0

\* struct.unpack('<h', bytes([lo, hi]))[0]
unpack_h(w) ==
    LET u == w[1] + 256 * w[2]
    IN  IF u >= 2 ^ 15 THEN u - 2 ^ 16 ELSE u

\* max(-1, min(1, value / max_range)), in units of 1 / max_range
normalize_spacemouse_value(value) ==
    IF value > max_range THEN max_range
    ELSE IF value < -max_range THEN -max_range ELSE value

\* the byte pairs of an axis: 0, 1, -1, 351, -351
BridgeWords == { <<0, 0>>, <<1, 0>>, <<255, 255>>, <<95, 1>>, <<161, 254>> }

\* the most axes off centre in one motion report
MaxDeflected == 2

\* the axes of a report that are off centre
Deflected(r) == { f \in {"x", "y", "z", "rz"} : r[f] # <<0, 0>> }

\* the motion reports read: x, y, z and rz, each any of BridgeWords
BridgeReports ==
    { r \in [x : BridgeWords, y : BridgeWords, z : BridgeWords, rz : BridgeWords] :
        Cardinality(Deflected(r)) <= MaxDeflected }

\* if norm > threshold: add(plus) elif norm < -threshold: add(minus)
KeyOf(norm, plus, minus) ==
    IF norm > threshold * max_range THEN {plus}
    ELSE IF norm < -threshold * max_range THEN {minus} ELSE {}

\* keys_should_be_pressed for a report; norm_rz is negated
ShouldBePressed(r) ==
    KeyOf(normalize_spacemouse_value(unpack_h(r.x)), "d", "a")
    \cup KeyOf(normalize_spacemouse_value(unpack_h(r.y)), "s", "w")
    \cup KeyOf(normalize_spacemouse_value(unpack_h(r.z)), "page_up", "page_down")
    \cup KeyOf(-normalize_spacemouse_value(unpack_h(r.rz)), "end", "delete")

\* button_mapping of the bridge, for the buttons MENU and ALT
bridge_button_mapping == [i \in {0, 1} |-> IF i = 0 THEN "esc" ELSE "alt_l"]

BridgeInit ==
    /\ cfg = CHOOSE c \in Configs : TRUE
    /\ states = <<>>
    /\ filtered = <<>>
    /\ now = 0
    /\ kbDown = {}
    /\ last = NoOp
    /\ hist = [n \in Names |-> NoHist]
    /\ HostStart

\* data = h.read(64) with a motion report: the keys wanted
BridgeMotion(r) ==
    /\ pc = "read"
    /\ keys_should_be_pressed' = ShouldBePressed(r)
    /\ last' = [op |-> "motion", name |-> "", raw |-> 0, calls |-> <<>>]
    /\ pc' = "release"
    /\ UNCHANGED <<cfg, states, filtered, now, kbDown, hist, prev_buttons, polls,
                   state, last_mode, pressed_keys, remaining>>

\* for key in keys_to_release: kb.release(key); pressed_keys.remove(key)
BridgeRelease(key) ==
    /\ pc = "release"
    /\ key \in pressed_keys \ keys_should_be_pressed
    /\ kbDown' = kb_release(kbDown, key, AllOk)
    /\ pressed_keys' = pressed_keys \ {key}
    /\ last' = [op |-> "release", name |-> key, raw |-> 0,
                calls |-> <<<<"release", key>>>>]
    /\ UNCHANGED <<cfg, states, filtered, now, hist, prev_buttons, polls, pc, state,
                   last_mode, keys_should_be_pressed, remaining>>

\* the release loop is done: keys_to_press = keys_should_be_pressed - pressed_keys
BridgeReleased ==
    /\ pc = "release"
    /\ pressed_keys \ keys_should_be_pressed = {}
    /\ pc' = "press"
    /\ last' = [op |-> "released", name |-> "", raw |-> 0, calls |-> <<>>]
    /\ UNCHANGED <<cfg, states, filtered, now, kbDown, hist, prev_buttons, polls,
                   state, last_mode, bridge>>

\* the press loop entered before the release loop has run
BridgePress_first(key) ==
    /\ pc \in {"release", "press"}
    /\ key \in keys_should_be_pressed \ pressed_keys
    /\ kbDown' = kb_press(kbDown, key, AllOk)
    /\ pressed_keys' = pressed_keys \cup {key}
    /\ last' = [op |-> "press", name |-> key, raw |-> 0,
                calls |-> <<<<"press", key>>>>]
    /\ UNCHANGED <<cfg, states, filtered, now, hist, prev_buttons, polls, pc, state,
                   last_mode, keys_should_be_pressed, remaining>>

\* for key in keys_to_press: kb.press(key); pressed_keys.add(key)
BridgePress(key) ==
    /\ pc = "press"
    /\ key \in keys_should_be_pressed \ pressed_keys
    /\ kbDown' = kb_press(kbDown, key, AllOk)
    /\ pressed_keys' = pressed_keys \cup {key}
    /\ last' = [op |-> "press", name |-> key, raw |-> 0,
                calls |-> <<<<"press", key>>>>]
    /\ UNCHANGED <<cfg, states, filtered, now, hist, prev_buttons, polls, pc, state,
                   last_mode, keys_should_be_pressed, remaining>>

\* the press loop is done; time.sleep(0.005) and the next round
BridgePressed ==
    /\ pc = "press"
    /\ keys_should_be_pressed \ pressed_keys = {}
    /\ pc' = "read"
    /\ last' = [op |-> "done", name |-> "", raw |-> 0, calls |-> <<>>]
    /\ UNCHANGED <<cfg, states, filtered, now, kbDown, hist, prev_buttons, polls,
                   state, last_mode, bridge>>

\* the calls of the taps of a button report, in the order of the indexes
BridgeTaps(bits) ==
    (IF 0 \in bits THEN TapCalls(Single(bridge_button_mapping[0])) ELSE <<>>)
    \o (IF 1 \in bits THEN TapCalls(Single(bridge_button_mapping[1])) ELSE <<>>)

\* a button report with the bits of the buttons in bits set: for each, in
\* the order of the indexes, kb.press(key); sleep; kb.release(key)
BridgeButtons(bits) ==
    /\ pc = "read"
    /\ \E calls \in {BridgeTaps(bits)} :
          /\ kbDown' = kb_apply(kbDown, calls)
          /\ last' = [op |-> "buttons", name |-> "", raw |-> 0, calls |-> calls]
    /\ UNCHANGED <<cfg, states, filtered, now, hist, host>>

\* except KeyboardInterrupt: the interrupt arrives after the calls `done`
\* of the statement that was running; the handler's loop over pressed_keys
\* starts
BridgeExcept(done) ==
    /\ kbDown' = kb_apply(kbDown, done)
    /\ last' = [op |-> "interrupt", name |-> "", raw |-> 0, calls |-> done]
    /\ remaining' = pressed_keys
    /\ pc' = "except"
    /\ UNCHANGED <<cfg, states, filtered, now, hist, prev_buttons, polls, state,
                   last_mode, pressed_keys, keys_should_be_pressed>>

\* KeyboardInterrupt between two statements of the loop body
BridgeInterrupt ==
    /\ pc \in {"read", "release", "press"}
    /\ BridgeExcept(<<>>)

\* KeyboardInterrupt between kb.release(key) and pressed_keys.remove(key)
BridgeInterruptInRelease(key) ==
    /\ pc = "release"
    /\ key \in pressed_keys \ keys_should_be_pressed
    /\ BridgeExcept(<<<<"release", key>>>>)

\* KeyboardInterrupt between kb.press(key) and pressed_keys.add(key)
BridgeInterruptInPress(key) ==
    /\ pc = "press"
    /\ key \in keys_should_be_pressed \ pressed_keys
    /\ BridgeExcept(<<<<"press", key>>>>)

\* KeyboardInterrupt in the taps of a button report with the bits of the
\* buttons in bits set, after k of their calls: in the time.sleep(0.005) of
\* a tap when call k is its press
BridgeInterruptInTap(bits, k) ==
    /\ pc = "read"
    /\ k \in 1..Len(BridgeTaps(bits))
    /\ BridgeExcept(SubSeq(BridgeTaps(bits), 1, k))

\* except Exception as e: print(...) -- the calls `done` were made and the
\* next statement, h.read or the actuator call `raised`, raised; the call
\* that raised changed nothing
BridgeError(done, raised) ==
    /\ kbDown' = kb_apply(kbDown, done)
    /\ last' = [op |-> "error", name |-> "", raw |-> 0, calls |-> done \o raised]
    /\ pc' = "finally"
    /\ UNCHANGED <<cfg, states, filtered, now, hist, prev_buttons, polls, state,
                   last_mode, bridge>>

\* h.read(64) raises
BridgeReadError == pc = "read" /\ BridgeError(<<>>, <<>>)

\* kb.release(key) of the release loop raises
BridgeReleaseError(key) ==
    /\ pc = "release"
    /\ key \in pressed_keys \ keys_should_be_pressed
    /\ BridgeError(<<>>, <<<<"release", key>>>>)

\* kb.press(key) of the press loop raises
BridgePressError(key) ==
    /\ pc = "press"
    /\ key \in keys_should_be_pressed \ pressed_keys
    /\ BridgeError(<<>>, <<<<"press", key>>>>)

\* call k of the taps of a button report raises
BridgeTapError(bits, k) ==
    /\ pc = "read"
    /\ k \in 1..Len(BridgeTaps(bits))
    /\ BridgeError(SubSeq(BridgeTaps(bits), 1, k - 1), <<BridgeTaps(bits)[k]>>)

\* for key in pressed_keys: try: kb.release(key) except: pass -- one key of
\* the handler's loop or of the loop of the finally block, in the iteration
\* order of the set (any); released: the call did not raise
BridgeExitRelease(key, released) ==
    /\ pc \in {"except", "closing"}
    /\ key \in remaining
    /\ kbDown' = kb_release(kbDown, key, [press |-> TRUE, release |-> released])
    /\ remaining' = remaining \ {key}
    /\ last' = [op |-> "release", name |-> key, raw |-> 0,
                calls |-> <<<<"release", key>>>>]
    /\ UNCHANGED <<cfg, states, filtered, now, hist, prev_buttons, polls, pc, state,
                   last_mode, pressed_keys, keys_should_be_pressed>>

\* the loop of the handler or of the finally block is done, or a second
\* KeyboardInterrupt ends it between two keys (in the finally block it is
\* swallowed by `except: pass`)
BridgeExitDone(interrupted) ==
    /\ pc \in {"except", "closing"}
    /\ interrupted \/ remaining = {}
    /\ remaining' = {}
    /\ pc' = IF pc = "except" THEN "finally" ELSE "exited"
    /\ last' = [op |-> "done", name |-> "", raw |-> 0, calls |-> <<>>]
    /\ UNCHANGED <<cfg, states, filtered, now, kbDown, hist, prev_buttons, polls,
                   state, last_mode, pressed_keys, keys_should_be_pressed>>

\* finally: try: h.close(); for key in pressed_keys: ... except: pass --
\* closed: h.close() did not raise
BridgeFinally(closed) ==
    /\ pc = "finally"
    /\ remaining' = IF closed THEN pressed_keys ELSE {}
    /\ pc' = IF closed THEN "closing" ELSE "exited"
    /\ last' = [op |-> "finally", name |-> "", raw |-> 0, calls |-> <<>>]
    /\ UNCHANGED <<cfg, states, filtered, now, kbDown, hist, prev_buttons, polls,
                   state, last_mode, pressed_keys, keys_should_be_pressed>>

BridgeNext ==
    \/ \E r \in BridgeReports : BridgeMotion(r)
    \/ \E key \in pressed_keys : BridgeRelease(key)
    \/ BridgeReleased
    \/ \E key \in keys_should_be_pressed : BridgePress(key)
    \/ BridgePressed
    \/ \E bits \in SUBSET DOMAIN bridge_button_mapping : BridgeButtons(bits)
    \/ BridgeInterrupt
    \/ \E key \in pressed_keys : BridgeInterruptInRelease(key)
    \/ \E key \in keys_should_be_pressed : BridgeInterruptInPress(key)
    \/ \E bits \in SUBSET DOMAIN bridge_button_mapping :
          \E k \in 1..4 : BridgeInterruptInTap(bits, k)
    \/ BridgeReadError
    \/ \E key \in pressed_keys : BridgeReleaseError(key)
    \/ \E key \in keys_should_be_pressed : BridgePressError(key)
    \/ \E bits \in SUBSET DOMAIN bridge_button_mapping :
          \E k \in 1..4 : BridgeTapError(bits, k)
    \/ \E key \in remaining, released \in BOOLEAN : BridgeExitRelease(key, released)
    \/ \E interrupted \in BOOLEAN : BridgeExitDone(interrupted)
    \/ \E closed \in BOOLEAN : BridgeFinally(closed)

BridgeSpec == BridgeInit /\ [][BridgeNext]_vars

----------------------------------------------------------------------------
(* Properties *)

Bound == DOMAIN states

IsUpdate(n) == last'.op = "update" /\ last'.name = n /\ n \in Bound
IsRelease(n) == last'.op = "release" /\ last'.name = n /\ n \in Bound
Idle(st) == ~st.pressed /\ ~st.held

\* C1 (Invariant I1), as claimed: after any sequence of bind, update and
\* forced release with an actuator that never fails, the flag pressed of
\* every bound axis is true exactly when the axis's key is down.
\* bind on a bound name forgets a key that is down.
C1_FlagsMatchActuator ==
    \A n \in Bound : states[n].pressed <=> states[n].key \in kbDown

RECURSIVE Alternates(_, _)
Alternates(down, calls) ==
    \/ calls = <<>>
    \/ /\ calls # <<>>
       /\ Head(calls) = (IF down THEN "release" ELSE "press")
       /\ Alternates(~down, Tail(calls))

\* C2 (release bound, safety part): the actuator calls issued for an axis's
\* key by update and forced release alternate press, release, press, ...
\* starting with a press: a press is issued only when the latest call for the
\* key is no press, a release only when it is a press.
C2_CallsAlternate ==
    [][\A n \in Bound :
          IsUpdate(n) \/ IsRelease(n) => Alternates(hist[n].since >= 0, last'.calls)]_vars

C2_Witness ==
    /\ last.op = "update"
    /\ last.calls = <<"release", "press">>
    /\ hist[last.name].since = now

\* the latest call on axis n is no update with a raw value other than 0
ZeroOnly(n) == last.name = n /\ last.op = "update" => last.raw = 0

Released(n) == Idle(states[n]) /\ states[n].key \notin kbDown

\* the smoothed value of n cannot be halved on the grid: the model's filter
\* has run out of digits
OffGrid(n) == ~EMAExact(0, filtered[n])

\* C3 (stuck-key freedom): with deadzone > 0, if from some point on every
\* update of the axis passes raw 0 and update keeps being called with a later
\* clock, then from some point on the axis is neither pressed nor held and
\* its key is up (so no press is issued any more), in pulse and in hold mode.
C3_StuckKeyFreedom ==
    <>[]ZeroOnly("move_left") => <>[](Released("move_left") \/ OffGrid("move_left"))

\* a pulse that was started at the last tick of the clock has been ended
C3_Witness ==
    /\ Released("move_left") /\ now > MaxTime
    /\ last.op = "update" /\ last.raw = 0 /\ last.calls = <<"release">>
    /\ states["move_left"].last_pulse_time = MaxTime

\* C4 (deadzone idempotence), as claimed: a run of consecutive update calls
\* whose raw value is within the deadzone issues no press, at most one
\* release, and nothing after that release.
C4_RawDeadzoneRun ==
    \A n \in Bound : hist[n].rz \in {<<>>, <<"release">>}

\* C4, amended: a run of consecutive update calls whose smoothed magnitude is
\* within the deadzone issues no press, at most one release and nothing after
\* it; the release is issued by the first call of the run when the axis is
\* held, and by the first call with now >= release_due when it is pressed and
\* not held; a call of the run before that time issues nothing.
C4_DeadzoneRun ==
    /\ [](\A n \in Bound : hist[n].dz \in {<<>>, <<"release">>})
    /\ [][\A n \in Bound :
            IsUpdate(n) /\ Abs(filtered'[n]) <= cfg.deadzone =>
                last'.calls =
                    IF \/ states[n].held
                       \/ states[n].pressed /\ now' >= states[n].release_due
                    THEN <<"release">> ELSE <<>>]_vars

C4_Witness ==
    \E n \in Bound :
        /\ last.op = "update" /\ last.name = n /\ last.calls = <<>>
        /\ hist[n].dz = <<"release">>

\* C5 (hold persistence), as claimed: in pulse mode, an update that sees
\* mag >= hold_threshold sets held with exactly one press, held stays true on
\* every later update whose mag is >= deadzone, and no press is issued while
\* held.
C5_HeldWhileAboveDeadzone ==
    [][\A n \in Bound :
          IsUpdate(n) /\ states[n].mode = "pulse" =>
             LET mag == Abs(filtered'[n])
             IN  /\ (mag >= cfg.hold_threshold /\ mag > cfg.deadzone /\ ~states[n].held)
                       => states'[n].held /\ last'.calls = <<"press">>
                 /\ (states[n].held /\ mag >= cfg.deadzone)
                       => states'[n].held /\ ~Issues(last'.calls, "press")]_vars

\* C5, amended: in pulse mode, every update that sees mag >= hold_threshold
\* (above the deadzone) leaves held and pressed true; it issues one press
\* when the key was not pressed and no call at all when it was (so none
\* while held).  held does not outlast a magnitude below hold_threshold.
C5_HeldWhileAboveThreshold ==
    [][\A n \in Bound :
          IsUpdate(n) /\ states[n].mode = "pulse" =>
             LET mag == Abs(filtered'[n])
             IN  /\ (mag >= cfg.hold_threshold /\ mag > cfg.deadzone)
                       => /\ states'[n].held /\ states'[n].pressed
                          /\ last'.calls =
                                IF states[n].pressed THEN <<>> ELSE <<"press">>
                 /\ mag < cfg.hold_threshold => ~states'[n].held]_vars

C5_Witness ==
    \E n \in Bound :
        /\ states[n].mode = "pulse" /\ states[n].held
        /\ last.op = "update" /\ last.name = n /\ last.calls = <<>>
        /\ states[n].last_pulse_time > 0

\* 1 / max_hz >= press_ms + d for a polling interval d = press_ms
SlowPulses ==
    LET hz == IF cfg.min_hz > cfg.max_hz THEN cfg.min_hz ELSE cfg.max_hz
    IN  TicksPerSecond >= 2 * cfg.press_ms * hz

\* C6 (bounded pulse width), as claimed: in pulse mode, while the magnitude
\* stays in the pulsing range and update is called at least every press_ms,
\* a key that is down after an update was pressed less than press_ms ago (so
\* the next update, at most press_ms later, releases it), whatever min_hz
\* and max_hz.
C6_PulseWidthBounded ==
    \A n \in Bound :
        states[n].mode = "pulse" /\ hist[n].since >= 0 /\ hist[n].steady
            => now - hist[n].since < cfg.press_ms

\* C6, amended: the same for a controller whose shortest pulse interval
\* 1 / max_hz is at least press_ms plus the polling interval.
C6_SlowPulseWidthBounded == SlowPulses => C6_PulseWidthBounded

C6_Witness ==
    \E n \in Bound :
        /\ SlowPulses /\ states[n].mode = "pulse"
        /\ hist[n].since >= 0 /\ hist[n].steady /\ now = hist[n].since + 1
        /\ states[n].last_pulse_time > cfg.press_ms

\* C7 (shutdown), as claimed: when the poll loop is cancelled at any point
\* of a tick, between two statements of main or inside update or inside a
\* button tap, then after the shutdown handler no key is down.  Every key
\* that is down was put down by the program.
\* The handler releases the keys of the axes whose flags are set: it misses
\* the key of a tap that was cut short and the key _press has pressed but
\* not yet flagged.
C7_ShutdownReleasesAll == pc = "exited" => kbDown = {}

\* C8 (forced release): _ensure_released leaves pressed and held false; it
\* issues one release when pressed or held was true and nothing otherwise, so
\* a second forced release in a row issues nothing; it leaves the other axes
\* alone, so that after a forced release of each bound axis none is pressed
\* or held.
C8_ForceReleasePost ==
    [][\A n \in Bound :
          IsRelease(n) =>
             /\ Idle(states'[n]) /\ states'[n].release_due = 0
             /\ last'.calls =
                   IF states[n].pressed \/ states[n].held THEN <<"release">> ELSE <<>>
             /\ \A m \in Bound \ {n} : states'[m] = states[m]
             /\ (last.op = "release" /\ last.name = n) => last'.calls = <<>>
             /\ (last.op = "release" /\ Bound = {n, last.name})
                   => \A m \in Bound : Idle(states'[m])]_vars

C8_Witness ==
    /\ last.op = "release" /\ last.calls = <<"release">>
    /\ Cardinality(Bound) = 2
    /\ \A m \in Bound : Idle(states[m])
    /\ kbDown = {}

\* C9 (actuator failures): whatever actuator calls fail, update and forced
\* release leave exactly the controller state (pressed, held, last_pulse_time,
\* release_due, smoothed value) and issue exactly the calls that they do when
\* every call succeeds.
C9_FailureIndependent ==
    [][\A n \in Bound :
          /\ IsUpdate(n) =>
                LET r == update(states, filtered, kbDown, n, last'.raw, now', AllOk)
                IN  /\ states' = r.states
                    /\ filtered' = r.filtered
                    /\ last'.calls = r.calls
          /\ IsRelease(n) =>
                LET r == _ensure_released([st |-> states[n], down |-> kbDown,
                                           calls |-> <<>>], AllOk)
                IN  /\ states' = [states EXCEPT ![n] = r.st]
                    /\ filtered' = filtered
                    /\ last'.calls = r.calls]_vars

\* a press has failed and the controller carries on pulsing
C9_Witness ==
    \E n \in Bound :
        /\ states[n].pressed /\ states[n].key \notin kbDown
        /\ states[n].last_pulse_time > 0

Count(seq, v) == Cardinality({i \in 1..Len(seq) : seq[i] = v})

\* the polls kept are those of the worked example
ExamplePolled ==
    /\ Len(polls) = Len(Example)
    /\ \A i \in 1..Len(Example) : polls[i].btns = Example[i]

\* C10 (edge-trigger exactness): when a poll's button vector has the length
\* of the vector of the poll before it, a mapped index fires one tap in
\* that poll if its value is true and was false in the poll before, and no
\* tap otherwise (stays true, true to false, stays false); an index without
\* a mapping fires none.  The polls [0,0], [1,0], [1,1], [0,0] in a row
\* fire exactly two taps, index 0 at the second and index 1 at the third.
C10_EdgeTriggerExact ==
    /\ [](ExamplePolled =>
            /\ polls[1].taps = <<>> /\ polls[2].taps = <<0>>
            /\ polls[3].taps = <<1>> /\ polls[4].taps = <<>>)
    /\ [][(polls' # polls /\ polls # <<>>) =>
            LET before == polls[Len(polls)].btns
                p == polls'[Len(polls')]
            IN  Len(p.btns) = Len(before) =>
                   /\ \A idx \in 0..(Len(p.btns) - 1) :
                         Count(p.taps, idx) =
                            IF Mapped(idx) /\ p.btns[idx + 1] # 0 /\ before[idx + 1] = 0
                            THEN 1 ELSE 0
                   /\ \A i \in 1..Len(p.taps) : p.taps[i] \in 0..(Len(p.btns) - 1)]_vars

\* the worked example has been polled, after a poll that had button 0 down
C10_Witness ==
    /\ ExamplePolled
    /\ polls[2].calls = <<<<"press", "b">>, <<"release", "b">>>>
    /\ polls[3].calls = <<<<"press", "alt_l">>, <<"release", "alt_l">>>>

\* calls is press(k1), ..., press(kn), release(kn), ..., release(k1)
PressedThenReversed(calls, keys) ==
    LET n == Len(keys)
    IN  /\ Len(calls) = 2 * n
        /\ \A i \in 1..n : calls[i] = <<"press", keys[i]>>
        /\ \A i \in 1..n : calls[2 * n + 1 - i] = <<"release", keys[i]>>

\* calls is, tap after tap, the calls of the taps of the buttons in taps
RECURSIVE TapByTap(_, _)
TapByTap(calls, taps) ==
    IF taps = <<>> THEN calls = <<>>
    ELSE LET n == 2 * Len(button_mapping[Head(taps)].keys)
         IN  /\ Len(calls) >= n
             /\ PressedThenReversed(SubSeq(calls, 1, n), button_mapping[Head(taps)].keys)
             /\ TapByTap(SubSeq(calls, n + 1, Len(calls)), Tail(taps))

\* C11 (combo ordering): the calls of a poll are, tap after tap, for a
\* button mapped to the keys k1..kn the presses of k1, ..., kn in the
\* listed order followed by the releases of kn, ..., k1 in reverse order
\* (every press of the combo before every release); for a button mapped to
\* a single key exactly press, release of that key.
C11_ComboOrder ==
    \A i \in 1..Len(polls) :
        /\ TapByTap(polls[i].calls, polls[i].taps)
        /\ \A j \in 1..Len(polls[i].taps) :
              ~button_mapping[polls[i].taps[j]].tuple
                 => Len(button_mapping[polls[i].taps[j]].keys) = 1

\* the combo of button 14 has been tapped: shift, space, space, shift
C11_Witness ==
    \E i \in 1..Len(polls) :
        /\ polls[i].taps = <<14>>
        /\ polls[i].calls = << <<"press", "shift">>, <<"press", "space">>,
                               <<"release", "space">>, <<"release", "shift">> >>

\* the poll just made has tapped, once each, exactly the mapped indices
\* that are true in its vector, and has stored its vector
FiresAllTrue(p) ==
    /\ { p.taps[j] : j \in 1..Len(p.taps) }
         = { idx \in 0..(Len(p.btns) - 1) : p.btns[idx + 1] # 0 /\ Mapped(idx) }
    /\ \A j, k \in 1..Len(p.taps) : p.taps[j] = p.taps[k] => j = k
    /\ prev_buttons' = p.btns

\* C12 as stated (button-vector length change): at every poll whose vector
\* differs in length from the stored previous vector, exactly the mapped
\* indices true in the incoming vector fire one tap each, none outside the
\* vector, and afterwards the stored previous state is the incoming vector.
C12_AnyLengthChange ==
    [][ LET p == polls'[Len(polls')]
        IN  Len(p.btns) # Len(prev_buttons) => FiresAllTrue(p) ]_vars

\* C12 (button-vector length change, non-empty vector): the same for every
\* poll whose vector is not empty; a poll with an empty vector fires no tap
\* and leaves the stored previous state as it was.
C12_LengthChange ==
    [][ LET p == polls'[Len(polls')]
        IN  /\ (p.btns # <<>> /\ Len(p.btns) # Len(prev_buttons)) => FiresAllTrue(p)
            /\ p.btns = <<>> => (p.taps = <<>> /\ prev_buttons' = prev_buttons) ]_vars

\* button 0 was down in a vector of one button and is down in the vector
\* of two buttons that follows: it has been tapped at both polls
C12_Witness ==
    /\ Len(polls) >= 2
    /\ polls[Len(polls) - 1].btns = <<1>>
    /\ polls[Len(polls)].btns = <<1, 0>>
    /\ polls[Len(polls)].taps = <<0>>
    /\ prev_buttons = <<1, 0>>

\* e ticks are at least 1/(minHz + unit*(maxHz-minHz)) seconds, where
\* unit = (mag-deadzone)/(holdThreshold-deadzone), for mag in the linear band
AtLeastInterval(e, mag) ==
    e * (cfg.min_hz * (cfg.hold_threshold - cfg.deadzone)
           + (mag - cfg.deadzone) * (cfg.max_hz - cfg.min_hz))
      >= TicksPerSecond * (cfg.hold_threshold - cfg.deadzone)

\* the pulse before the press just issued was released before the next
\* pulse start was due
Timely(h) == h.gap >= 0 /\ h.width >= 0 /\ ~AtLeastInterval(h.width, h.mag)

\* C13 (pulse frequency): in pulse mode, over update calls with one smoothed
\* magnitude in the linear band and a clock that does not run backwards,
\* when the earlier pulse was released before the next pulse start was due,
\* two successive presses are at least interval = 1/(minHz +
\* unit*(maxHz-minHz)) apart and less than interval plus the polling period
\* apart.
C13_PulseFrequency ==
    \A n \in DOMAIN states :
        Timely(hist[n]) =>
            /\ AtLeastInterval(hist[n].gap, hist[n].mag)
            /\ ~AtLeastInterval(hist[n].gap - hist[n].period, hist[n].mag)

\* a second press of a run, after a pulse released in time, at both
\* frequencies the configurations give
C13_Witness ==
    /\ Timely(hist["move_left"])
    /\ hist["move_left"].period > 0
    /\ hist["move_left"].gap > hist["move_left"].width

\* an update call of a pulse-mode axis n of a controller with
\* holdThreshold <= deadzone whose smoothed magnitude is above the deadzone
Misconfigured(n) ==
    /\ IsUpdate(n)
    /\ cfg.hold_threshold <= cfg.deadzone
    /\ states[n].mode = "pulse"
    /\ Abs(filtered'[n]) > cfg.deadzone

\* C14 as stated (misconfigured thresholds): with holdThreshold <= deadzone
\* an update of a pulse-mode axis with magnitude above the deadzone pulses
\* the axis at maxHz: when the key is up and 1/maxHz has passed since the
\* last pulse start, the call starts a pulse (a press, the pulse start time
\* set to now, the axis not held).
C14_PulsedAtMaxHz ==
    [][ \A n \in Names :
          ( /\ Misconfigured(n)
            /\ ~states[n].pressed
            /\ (now' - states[n].last_pulse_time) * cfg.max_hz >= TicksPerSecond )
          => /\ last'.calls = <<"press">>
             /\ states'[n].last_pulse_time = now'
             /\ ~states'[n].held ]_vars

\* C14 (misconfigured thresholds, held): with holdThreshold <= deadzone an
\* update of a pulse-mode axis with magnitude above the deadzone holds the
\* axis: it issues one press if the key was up and no call otherwise, never
\* a release; afterwards the axis is pressed and held, the key is down, and
\* no pulse was started (pulse start time and release time unchanged).
C14_MisconfiguredHolds ==
    [][ \A n \in Names :
          Misconfigured(n)
          => /\ last'.calls = IF states[n].pressed THEN <<>> ELSE <<"press">>
             /\ states'[n].pressed /\ states'[n].held
             /\ states'[n].key \in kbDown'
             /\ states'[n].last_pulse_time = states[n].last_pulse_time
             /\ states'[n].release_due = states[n].release_due ]_vars

\* the axis of a misconfigured controller, held by an earlier call, was
\* updated above the deadzone again, long after a pulse start was due:
\* no call
C14_Witness ==
    /\ cfg.hold_threshold <= cfg.deadzone
    /\ last.op = "update" /\ last.name = "move_left" /\ last.calls = <<>>
    /\ Abs(filtered["move_left"]) > cfg.deadzone
    /\ states["move_left"].held
    /\ now - states["move_left"].last_pulse_time >= TicksPerSecond

\* the filtered value of every bound axis is within the largest magnitude
\* of the raw samples since its bind
WithinSamples == \A n \in Bound : Abs(filtered[n]) <= hist[n].bound

C16_BindPost ==
    [][ \A n \in Names, mode \in Modes :
          (Bind(n, mode) /\ UNCHANGED hist)
          => /\ DOMAIN states' = DOMAIN states \cup {n}
             /\ DOMAIN filtered' = DOMAIN filtered \cup {n}
             /\ states'[n].mode = (IF mode \in {"pulse", "hold"} THEN mode ELSE "pulse")
             /\ states'[n].key = axis_mapping[n]
             /\ ~states'[n].pressed /\ ~states'[n].held
             /\ states'[n].last_pulse_time = 0 /\ states'[n].release_due = 0
             /\ filtered'[n] = 0
             /\ last'.calls = <<>> /\ kbDown' = kbDown
             /\ \A m \in Bound \ {n} :
                   states'[m] = states[m] /\ filtered'[m] = filtered[m] ]_vars

\* move_left was bound again while its key was down and its filter was
\* loaded, next to the pressed axis move_right
C16_Witness ==
    /\ last.op = "bind" /\ last.name = "move_left"
    /\ axis_mapping["move_left"] \in kbDown
    /\ "move_right" \in Bound
    /\ states["move_right"].pressed /\ filtered["move_right"] > 0
    /\ Idle(states["move_left"]) /\ filtered["move_left"] = 0

\* C17 (update on an unbound name): the call issues no actuator call and
\* leaves the states of the bound axes, every stored filtered value and the
\* keys that are down unchanged; no filter entry is created for the name.
C17_UnboundNoOp ==
    [][ \A n \in Names \ Bound :
          (last'.op = "update" /\ last'.name = n)
          => /\ last'.calls = <<>>
             /\ states' = states
             /\ filtered' = filtered
             /\ n \notin DOMAIN filtered'
             /\ kbDown' = kbDown ]_vars

\* a full deflection was sent to the unbound move_right while the bound
\* move_left is pressed and its filter loaded
C17_Witness ==
    /\ last.op = "update" /\ last.name = "move_right" /\ last.raw = Scale
    /\ Bound = {"move_left"}
    /\ DOMAIN filtered = {"move_left"}
    /\ states["move_left"].pressed /\ filtered["move_left"] > 0

\* C18 (hold mode): for an axis in hold mode, an update call with smoothed
\* magnitude above the deadzone issues exactly one press and sets held when
\* the axis was not held (the first such call) and issues no call and
\* changes nothing when it was held (every later one, whatever now and
\* release_due); an update call with magnitude <= deadzone of a held axis
\* issues exactly one release and clears pressed and held; held is set by
\* no other step.
C18_HoldMode ==
    [][ \A n \in Bound :
          states[n].mode = "hold" =>
            /\ (states'[n].held /\ ~states[n].held)
                  => IsUpdate(n) /\ Abs(filtered'[n]) > cfg.deadzone
            /\ (IsUpdate(n) /\ Abs(filtered'[n]) > cfg.deadzone /\ ~states[n].held)
                  => /\ last'.calls = <<"press">>
                     /\ states'[n].held /\ states'[n].pressed
                     /\ states'[n].key \in kbDown'
            /\ (IsUpdate(n) /\ Abs(filtered'[n]) > cfg.deadzone /\ states[n].held)
                  => last'.calls = <<>> /\ states'[n] = states[n] /\ kbDown' = kbDown
            /\ (IsUpdate(n) /\ Abs(filtered'[n]) <= cfg.deadzone /\ states[n].held)
                  => /\ last'.calls = <<"release">>
                     /\ ~states'[n].held /\ ~states'[n].pressed
                     /\ states'[n].key \notin kbDown' ]_vars

\* a held axis in hold mode was updated in the linear band a second or more
\* after its press: no call, the key stays down
C18_Witness ==
    /\ states["move_left"].mode = "hold"
    /\ last.op = "update" /\ last.calls = <<>>
    /\ InBand(Abs(filtered["move_left"]))
    /\ states["move_left"].held
    /\ axis_mapping["move_left"] \in kbDown
    /\ now >= TicksPerSecond

\* C19 (deadzone step): an update call whose smoothed magnitude is <=
\* deadzone issues no press and leaves last_pulse_time; if the axis is held
\* it issues one release and clears pressed, held and release_due; else if
\* it is pressed and now >= release_due it issues one release and clears
\* pressed; else it issues no call and leaves pressed, held and release_due.
C19_DeadzoneStep ==
    [][ \A n \in Bound :
          (IsUpdate(n) /\ Abs(filtered'[n]) <= cfg.deadzone) =>
            /\ ~Issues(last'.calls, "press")
            /\ states'[n].last_pulse_time = states[n].last_pulse_time
            /\ IF states[n].held
               THEN /\ last'.calls = <<"release">>
                    /\ ~states'[n].pressed /\ ~states'[n].held
                    /\ states'[n].release_due = 0
               ELSE IF states[n].pressed /\ now' >= states[n].release_due
               THEN /\ last'.calls = <<"release">>
                    /\ states'[n] = [states[n] EXCEPT !.pressed = FALSE]
               ELSE /\ last'.calls = <<>>
                    /\ states'[n] = states[n] ]_vars

\* a pulse whose time has not run out went through a deadzone update: the
\* key is still down, no call was issued
C19_Witness ==
    /\ last.op = "update" /\ last.name = "move_left" /\ last.calls = <<>>
    /\ Abs(filtered["move_left"]) <= cfg.deadzone
    /\ states["move_left"].pressed /\ ~states["move_left"].held
    /\ now < states["move_left"].release_due
    /\ axis_mapping["move_left"] \in kbDown

\* C20 (leaving the override band): an update call of a held pulse-mode
\* axis with deadzone < mag < holdThreshold issues one release and clears
\* held, then runs the pulse logic in the same call: it issues a press after
\* the release exactly when now - last_pulse_time >= interval, and then the
\* pulse starts at now; after the call held is false.  An update call of a
\* held pulse-mode axis with mag >= holdThreshold issues no call.
C20_LeaveOverride ==
    [][ \A n \in Bound :
          (IsUpdate(n) /\ states[n].mode = "pulse" /\ states[n].held) =>
            /\ InBand(Abs(filtered'[n])) =>
                  /\ ~states'[n].held
                  /\ IF AtLeastInterval(now' - states[n].last_pulse_time,
                                        Abs(filtered'[n]))
                     THEN /\ last'.calls = <<"release", "press">>
                          /\ states'[n].pressed
                          /\ states'[n].last_pulse_time = now'
                          /\ states'[n].release_due = now' + cfg.press_ms
                     ELSE /\ last'.calls = <<"release">>
                          /\ states'[n] = [states[n] EXCEPT !.held = FALSE,
                                                            !.pressed = FALSE]
            /\ Abs(filtered'[n]) >= cfg.hold_threshold =>
                  last'.calls = <<>> /\ states'[n] = states[n] ]_vars

\* the axis left the override band and was released and pressed again by
\* one call
C20_Witness ==
    /\ last.op = "update" /\ last.name = "move_left"
    /\ last.calls = <<"release", "press">>
    /\ states["move_left"].mode = "pulse"
    /\ InBand(Abs(filtered["move_left"]))
    /\ ~states["move_left"].held /\ states["move_left"].pressed
    /\ states["move_left"].last_pulse_time = now

\* C21 (opposite key idle), as claimed: after the two updates of a tick on
\* the X pair, the direction that was updated with 0.0 is idle (neither
\* pressed nor held), and the keys of move_left and move_right are not
\* both down on the actuator.
C21_OppositeIdle ==
    pc = "buttons" =>
        /\ Idle(states[XSecond(state.x).name])
        /\ ~({axis_mapping["move_left"], axis_mapping["move_right"]} \subseteq kbDown)

\* C22 (mode transition in the host loop): in a tick whose mode signal
\* differs from the mode applied last, the mode of exactly the movement axes
\* becomes the new mode and each of them is force-released before the first
\* update of the tick (one release for each that was pressed or held; after
\* it none is pressed or held and none of their keys is down); the states
\* of the rotate axes, their keys and every filtered value are unchanged.
\* No other step changes the mode of an axis.
C22_ModeTransition ==
    [][ /\ \A m \in {"pulse", "hold"} :
             (ModeCheck(m) /\ UNCHANGED hist /\ m # last_mode) =>
                /\ last_mode' = m
                /\ pc' = "x_first"
                /\ \A n \in Movement :
                      /\ states'[n] = [states[n] EXCEPT !.mode = m, !.pressed = FALSE,
                                                        !.held = FALSE, !.release_due = 0]
                      /\ states'[n].key \notin kbDown'
                /\ Len(last'.calls)
                      = Cardinality({n \in Movement : states[n].pressed \/ states[n].held})
                /\ \A i \in 1..Len(last'.calls) : last'.calls[i] = "release"
                /\ \A n \in Bound \ Movement : states'[n] = states[n]
                /\ kbDown' = kbDown \ {states[n].key : n \in Movement}
                /\ filtered' = filtered
        /\ \A n \in Bound :
             states'[n].mode # states[n].mode
                => pc = "mode" /\ n \in Movement /\ states'[n].mode = last_mode' ]_vars

\* the mode changed while move_right and rotate_right were held: one
\* release, the key of rotate_right is still down, no update of the tick
\* has run yet
C22_Witness ==
    /\ pc = "x_first"
    /\ last.op = "mode" /\ last.calls = <<"release">>
    /\ states["move_right"].mode = last_mode
    /\ filtered["move_right"] > cfg.deadzone
    /\ Idle(states["move_right"])
    /\ states["rotate_right"].held
    /\ kbDown = {axis_mapping["rotate_right"]}

\* C23 (held implies pressed): under any sequence of bind, update, forced
\* release and direct mode switches between pulse and hold, every bound
\* axis that is held is also marked pressed.
C23_HeldImpliesPressed ==
    \A n \in Bound : states[n].held => states[n].pressed

\* a pulse was started, the mode was switched to hold without a release,
\* and an update above the deadzone then set held on the pressed axis
C23_Witness ==
    /\ states["move_left"].mode = "hold"
    /\ states["move_left"].held /\ states["move_left"].pressed
    /\ states["move_left"].release_due > 0
    /\ last.op = "update" /\ last.calls = <<>>

\* C24 (button taps are balanced), as claimed: after each poll no key
\* pressed by a button tap is down on the actuator, also when one of the
\* actuator calls of a tap fails (no axis is bound here: every key that is
\* down was pressed by a tap).
C24_TapsBalanced == kbDown = {}

\* the opposite pairs of the bridge
OppositePairs ==
    { {"a", "d"}, {"w", "s"}, {"page_up", "page_down"}, {"end", "delete"} }

\* the keys of the motion axes
MotionKeys == UNION OppositePairs

\* each press of the sequence is for a key that is up and each release for
\* a key that is down, when the calls are made in order from the keys down
RECURSIVE KeyAlternates(_, _)
KeyAlternates(down, calls) ==
    \/ calls = <<>>
    \/ /\ calls # <<>>
       /\ IF Head(calls)[1] = "press" THEN Head(calls)[2] \notin down
                                      ELSE Head(calls)[2] \in down
       /\ KeyAlternates(kb_apply(down, <<Head(calls)>>), Tail(calls))

\* each press of a motion key is for a key that is not tracked and each
\* release of a motion key for a key that is tracked
TrackedCalls(tracked, calls) ==
    \A i \in 1..Len(calls) :
       calls[i][2] \in MotionKeys =>
          IF calls[i][1] = "press" THEN calls[i][2] \notin tracked
                                   ELSE calls[i][2] \in tracked

\* C25 as stated (direct bridge): after each motion report is processed the
\* tracked set pressed_keys equals the set computed for the report and the
\* set of keys down on the actuator; a press is issued only for a key that
\* is not tracked and a release only for a tracked key, so that the presses
\* and releases of each key alternate; at no time are both keys of an
\* opposite pair down.
C25_BridgeTracking ==
    /\ [](pc = "read" => /\ pressed_keys = keys_should_be_pressed
                         /\ kbDown = pressed_keys)
    /\ [](\A pair \in OppositePairs : ~(pair \subseteq kbDown))
    /\ [][ /\ TrackedCalls(pressed_keys, last'.calls)
           /\ KeyAlternates(kbDown, last'.calls) ]_vars

\* C25 (direct bridge, the exit told apart): after each motion report is
\* processed pressed_keys equals the set computed for the report and the
\* set of keys down; at no time are both keys of an opposite pair down; a
\* press is issued only for a key that is not tracked and a release only
\* for a tracked key; the calls of the loop alternate for each key, the
\* call that was interrupted or that raised included; on exit the handler
\* of the interrupt and the finally block issue releases only, each for a
\* key of pressed_keys that the running handler has not released yet,
\* pressed_keys is left as it was and no key goes down.
C25_TrackingUntilExit ==
    /\ [](pc = "read" => /\ pressed_keys = keys_should_be_pressed
                         /\ kbDown = pressed_keys)
    /\ [](\A pair \in OppositePairs : ~(pair \subseteq kbDown))
    /\ [](remaining \subseteq pressed_keys)
    /\ [][ /\ TrackedCalls(pressed_keys, last'.calls)
           /\ pc \in {"read", "release", "press"}
                => KeyAlternates(kbDown, last'.calls)
           /\ pc \in {"except", "finally", "closing"}
                => /\ pressed_keys' = pressed_keys
                   /\ kbDown' \subseteq kbDown
                   /\ \A i \in 1..Len(last'.calls) :
                         /\ last'.calls[i][1] = "release"
                         /\ last'.calls[i][2] \in remaining \ remaining' ]_vars

\* a report with X negative and Z positive was processed and the loop was
\* left with a and page_up tracked: page_up was released, each release of a
\* raised and was swallowed or was never reached, and the program has ended
\* with a tracked and down
C25_Witness ==
    /\ pc = "exited"
    /\ last.op = "done"
    /\ pressed_keys = {"a", "page_up"}
    /\ keys_should_be_pressed = pressed_keys
    /\ remaining = {}
    /\ kbDown = {"a"}

====
